---- MODULE Spec2Model ----
(***************************************************************************)
(* Model of src/simulation/equity_simulator.cpp: the hand-notation parser, *)
(* the deck builder, the 5-card evaluator, the best-of-7 selector and the  *)
(* Monte Carlo loop of EquitySimulator::simulate.                          *)
(***************************************************************************)
EXTENDS Integers, Sequences, FiniteSets, TLC

\* ---------------------------------------------------------------------
\* Global constants (equity_simulator.cpp:17-26)
\* ---------------------------------------------------------------------
RANKS == <<"A", "K", "Q", "J", "T", "9", "8", "7", "6", "5", "4", "3", "2">>

SUITS == <<"h", "d", "c", "s">>

RANK_VALUES ==
    [r \in {RANKS[n] : n \in 1..Len(RANKS)} |->
        CASE r = "A" -> 14 [] r = "K" -> 13 [] r = "Q" -> 12 [] r = "J" -> 11
          [] r = "T" -> 10 [] r = "9" -> 9  [] r = "8" -> 8  [] r = "7" -> 7
          [] r = "6" -> 6  [] r = "5" -> 5  [] r = "4" -> 4  [] r = "3" -> 3
          [] r = "2" -> 2]

\* struct Card {rank, suit}
Card(r, s) == [rank |-> r, suit |-> s]

\* ---------------------------------------------------------------------
\* Sequence helpers standing for the <algorithm> calls the code makes
\* ---------------------------------------------------------------------
Range(s) == {s[n] : n \in 1..Len(s)}

\* std::count(first, last, x)
Count(s, x) == Cardinality({n \in 1..Len(s) : s[n] = x})

\* sort(values.begin(), values.end(), greater<int>())
SortDesc(s) == SortSeq(s, LAMBDA a, b : a > b)

RECURSIVE AscSeq(_)
AscSeq(S) ==
    IF S = {} THEN <<>>
    ELSE LET lo == CHOOSE x \in S : \A y \in S : x <= y
         IN <<lo>> \o AscSeq(S \ {lo})

\* sort ascending, then erase(unique(...)): the distinct values, ascending
UniqueVals(values) == AscSeq(Range(values))

\* std::lexicographical_compare(a.begin(), a.end(), b.begin(), b.end())
RECURSIVE lexicographical_compare(_, _)
lexicographical_compare(a, b) ==
    IF b = <<>> THEN FALSE
    ELSE IF a = <<>> THEN TRUE
    ELSE IF Head(a) < Head(b) THEN TRUE
    ELSE IF Head(b) < Head(a) THEN FALSE
    ELSE lexicographical_compare(Tail(a), Tail(b))

\* operator> of vector<int>: a > b is b < a
VecGreater(a, b) == lexicographical_compare(b, a)

\* ---------------------------------------------------------------------
\* 5-card evaluator (equity_simulator.cpp:105-212)
\* ---------------------------------------------------------------------
\* RANK_VALUES.at(c.rank) throws std::out_of_range for an unknown rank
EvalThrows(cards) == \E n \in 1..Len(cards) : cards[n].rank \notin DOMAIN RANK_VALUES

\* values left in the order of the cards (the sort dropped)
SortedValues_Unsorted(cards) == [n \in 1..Len(cards) |-> RANK_VALUES[cards[n].rank]]

SortedValues(cards) == SortDesc([n \in 1..Len(cards) |-> RANK_VALUES[cards[n].rank]])

IsFlush(cards) == Count([n \in 1..Len(cards) |-> cards[n].suit], cards[1].suit) = 5

\* the loop over windows of 5 in uniqueVals; the last matching window wins
StraightWindows(uv) ==
    IF Len(uv) >= 5 THEN {n \in 1..(Len(uv) - 4) : uv[n + 4] - uv[n] = 4} ELSE {}

HasWheel(uv) == {14, 2, 3, 4, 5} \subseteq Range(uv)

IsStraight(uv) == StraightWindows(uv) # {} \/ HasWheel(uv)

\* the wheel reported with the ace as its high card
StraightHigh_AceHigh(uv) ==
    LET w == StraightWindows(uv)
    IN IF w # {} THEN uv[(CHOOSE n \in w : \A o \in w : o <= n) + 4]
       ELSE IF HasWheel(uv) THEN 14
       ELSE 0

StraightHigh(uv) ==
    LET w == StraightWindows(uv)
    IN IF w # {} THEN uv[(CHOOSE n \in w : \A o \in w : o <= n) + 4]
       ELSE IF HasWheel(uv) THEN 5
       ELSE 0

\* the pairs sorted by value alone
CountPairs_ByValue(values) ==
    LET ps == AscSeq(Range(values))
    IN SortSeq([n \in 1..Len(ps) |-> <<Count(values, ps[n]), ps[n]>>],
               LAMBDA a, b : a[2] > b[2])

\* freq, turned into (count, value) pairs sorted by count then value, descending
CountPairs(values) ==
    LET freq == [v \in Range(values) |-> Count(values, v)]
        ps   == AscSeq(DOMAIN freq)
    IN SortSeq([n \in 1..Len(ps) |-> <<freq[ps[n]], ps[n]>>],
               LAMBDA a, b : IF a[1] = b[1] THEN a[2] > b[2] ELSE a[1] > b[1])

\* the kicker loop pushing nothing
FirstOf_None(s) == <<>>

\* the first element of a sequence, or nothing (a loop that breaks on its first hit)
FirstOf(s) == IF s = <<>> THEN <<>> ELSE <<Head(s)>>

evaluate5CardHand(cards) ==
    LET values     == SortedValues(cards)
        uniqueVals == UniqueVals(values)
        isFlush    == IsFlush(cards)
        isStraight == IsStraight(uniqueVals)
        cp         == CountPairs(values)
        top        == cp[1][2]
    IN IF isStraight /\ isFlush THEN
           <<9, StraightHigh(uniqueVals)>>
       ELSE IF cp[1][1] = 4 THEN
           <<8, top>> \o FirstOf(SelectSeq(values, LAMBDA v : v # top))
       ELSE IF cp[1][1] = 3 /\ Len(cp) > 1 /\ cp[2][1] >= 2 THEN
           <<7, top, cp[2][2]>>
       ELSE IF isFlush THEN
           <<6>> \o values
       ELSE IF isStraight THEN
           <<5, StraightHigh(uniqueVals)>>
       ELSE IF cp[1][1] = 3 THEN
           <<4, top>> \o SelectSeq(values, LAMBDA v : v # top)
       ELSE IF cp[1][1] = 2 /\ Len(cp) >= 2 /\ cp[2][1] = 2 THEN
           <<3, top, cp[2][2]>>
               \o FirstOf(SelectSeq(values, LAMBDA v : v # top /\ v # cp[2][2]))
       ELSE IF cp[1][1] = 2 THEN
           <<2, top>> \o SelectSeq(values, LAMBDA v : v # top)
       ELSE
           <<1>> \o values

\* isBetterHand (equity_simulator.cpp:215-217)
isBetterHand(h1, h2) == lexicographical_compare(h2, h1)

\* ---------------------------------------------------------------------
\* Best-of-7 selector (equity_simulator.cpp:219-244)
\* ---------------------------------------------------------------------
\* the outer loop stopping one index early (i < 2)
LoopTuples_Short ==
    {t \in (1..2) \X (1..4) \X (1..5) \X (1..6) \X (1..7) :
        t[1] < t[2] /\ t[2] < t[3] /\ t[3] < t[4] /\ t[4] < t[5]}

\* the index tuples the five nested loops visit (1-based here, 0-based in the code)
LoopTuples ==
    {t \in (1..3) \X (1..4) \X (1..5) \X (1..6) \X (1..7) :
        t[1] < t[2] /\ t[2] < t[3] /\ t[3] < t[4] /\ t[4] < t[5]}

TupleCode(t) == (((t[1] * 8 + t[2]) * 8 + t[3]) * 8 + t[4]) * 8 + t[5]

\* the tuples in the order the loops visit them: i outermost, m innermost
LoopCombos ==
    LET codes == AscSeq({TupleCode(t) : t \in LoopTuples})
    IN [n \in 1..Len(codes) |-> CHOOSE t \in LoopTuples : TupleCode(t) = codes[n]]

\* vector<Card> five = {sevenCards[i], ..., sevenCards[m]} for each visit
FivesOf(sevenCards) ==
    [n \in 1..Len(LoopCombos) |-> [p \in 1..5 |-> sevenCards[LoopCombos[n][p]]]]

\* if (first || isBetterHand(val, bestVal)) bestVal = val, over the visits in order
RECURSIVE BestOver(_, _, _)
BestOver(valSeq, n, bestSoFar) ==
    IF n > Len(valSeq) THEN bestSoFar
    ELSE BestOver(valSeq, n + 1,
                  IF n = 1 \/ isBetterHand(valSeq[n], bestSoFar) THEN valSeq[n]
                  ELSE bestSoFar)

\* vector<int> val = evaluate5CardHand(five), visit by visit
ValsOf(sevenCards) ==
    LET fives == FivesOf(sevenCards)
    IN [n \in 1..Len(fives) |-> evaluate5CardHand(fives[n])]

BestOfVals(valSeq) == BestOver(valSeq, 1, <<>>)

bestHandValue(sevenCards) == BestOfVals(ValsOf(sevenCards))

\* ---------------------------------------------------------------------
\* Hand notation and deck (equity_simulator.cpp:54-86)
\* ---------------------------------------------------------------------
\* tolower() on the characters the hand strings are drawn from
ToLower(ch) ==
    CASE ch = "A" -> "a" [] ch = "S" -> "s" [] ch = "X" -> "x" [] OTHER -> ch

parseHand(handStr) ==
    IF Len(handStr) = 2 THEN
        <<Card(handStr[1], "h"), Card(handStr[2], "d")>>
    ELSE IF Len(handStr) = 3 THEN
        IF ToLower(handStr[3]) = "s"
        THEN <<Card(handStr[1], "h"), Card(handStr[2], "h")>>
        ELSE <<Card(handStr[1], "h"), Card(handStr[2], "d")>>
    ELSE <<>>

\* for r in RANKS, for s in SUITS: the 52 cards in the order the loops make them
AllCards ==
    [n \in 1..(Len(RANKS) * Len(SUITS)) |->
        Card(RANKS[((n - 1) \div Len(SUITS)) + 1], SUITS[((n - 1) % Len(SUITS)) + 1])]

\* cards compared by rank alone
CardEq_RankOnly(a, b) == a.rank = b.rank

\* operator==(const Card &, const Card &) (equity_simulator.cpp:33-35)
CardEq(a, b) == a.rank = b.rank /\ a.suit = b.suit

buildDeck(exclude) ==
    SelectSeq(AllCards, LAMBDA c : ~(\E n \in 1..Len(exclude) : CardEq(exclude[n], c)))

\* ---------------------------------------------------------------------
\* Bounds
\* ---------------------------------------------------------------------
\* the evaluator is exercised on the ace and the MaxLowRanks lowest ranks
MaxLowRanks == 7

\* cards the best-of-7 selector draws from
BestCards == 16

\* cards the reordered calls draw from
PermCards == 7

\* hand strings of the wrong length have up to this many characters
MaxStrLen == 4

\* trial counts -1..MaxSims
MaxSims == 2

\* the generator's shuffles are cuts at 0..MaxCut of the deck and of the deck
\* turned over
MaxCut == 4

TestRanks == <<"A">> \o SubSeq(RANKS, Len(RANKS) - MaxLowRanks + 1, Len(RANKS))

EvalDeck ==
    [n \in 1..(Len(TestRanks) * Len(SUITS)) |->
        Card(TestRanks[((n - 1) \div Len(SUITS)) + 1], SUITS[((n - 1) % Len(SUITS)) + 1])]

\* low cards in an order whose first cards already hold a wheel, pairs, a flush,
\* quads and a six-high straight
TestOrder ==
    <<Card("A", "h"), Card("5", "h"), Card("4", "h"), Card("3", "h"), Card("2", "h"),
      Card("A", "d"), Card("5", "d"), Card("6", "h"), Card("A", "c"), Card("A", "s"),
      Card("5", "c"), Card("5", "s"), Card("6", "d"), Card("4", "d"), Card("7", "h"),
      Card("3", "c"), Card("2", "s"), Card("6", "c"), Card("7", "d"), Card("4", "c")>>

BestDeck == SubSeq(TestOrder, 1, BestCards)

PermDeck == SubSeq(TestOrder, 1, PermCards)

HandChars == {"A", "7", "s", "o", "S", "X"}

RECURSIVE StringsOfLen(_)
StringsOfLen(n) ==
    IF n = 0 THEN {<<>>}
    ELSE {Append(str, ch) : str \in StringsOfLen(n - 1), ch \in HandChars}

\* parseHand looks at nothing but the length of a string that is not 2 or 3 long
WrongLengthStrings == {[n \in 1..len |-> "A"] : len \in (0..MaxStrLen) \ {2, 3}}

\* every string of 2 or 3 characters, and one string of every other length
HandStrings == StringsOfLen(2) \cup StringsOfLen(3) \cup WrongLengthStrings

\* what an out-of-range read of a vector<Card> may yield
GarbageCards == {Card("A", "h"), Card("?", "?")}

\* ---------------------------------------------------------------------
\* State
\* ---------------------------------------------------------------------
VARIABLES
    pc,
    \* evaluate5CardHand: argument and result
    five, handValue,
    \* bestHandValue: argument, result, the fives it built and their values
    seven, bestVal, evaluated, vals,
    \* EquitySimulator members
    heroHandStr, simulations, heroHand,
    \* simulate(): locals
    wins, ties, losses, i, deck, oppHand, board, heroSeven, oppSeven,
    heroVal, oppVal, equity

evalVars == <<five, handValue>>

bestVars == <<seven, bestVal, evaluated, vals>>

memberVars == <<heroHandStr, simulations, heroHand>>

tallyVars == <<wins, ties, losses, i>>

trialVars == <<deck, oppHand, board, heroSeven, oppSeven, heroVal, oppVal>>

vars == <<pc, evalVars, bestVars, memberVars, tallyVars, trialVars, equity>>

NoEquity == [kind |-> "unset", num |-> 0, den |-> 0]

EvalIdle == five = <<>> /\ handValue = <<>>

BestIdle == seven = <<>> /\ bestVal = <<>> /\ evaluated = <<>> /\ vals = <<>>

SimIdle ==
    /\ heroHandStr = <<>> /\ simulations = 0 /\ heroHand = <<>>
    /\ wins = 0 /\ ties = 0 /\ losses = 0 /\ i = 0
    /\ deck = <<>> /\ oppHand = <<>> /\ board = <<>>
    /\ heroSeven = <<>> /\ oppSeven = <<>> /\ heroVal = <<>> /\ oppVal = <<>>
    /\ equity = NoEquity

\* ---------------------------------------------------------------------
\* Calls of the evaluator and of the selector on given cards
\* ---------------------------------------------------------------------
\* five distinct cards of a deck, in deck order
FiveFrom(d) ==
    \E a \in 1..Len(d) : \E b \in (a + 1)..Len(d) : \E c \in (b + 1)..Len(d) :
    \E e \in (c + 1)..Len(d) : \E f \in (e + 1)..Len(d) :
        five = <<d[a], d[b], d[c], d[e], d[f]>>

SevenFrom(d) ==
    \E a \in 1..Len(d) : \E b \in (a + 1)..Len(d) : \E c \in (b + 1)..Len(d) :
    \E e \in (c + 1)..Len(d) : \E f \in (e + 1)..Len(d) :
    \E g \in (f + 1)..Len(d) : \E h \in (g + 1)..Len(d) :
        seven = <<d[a], d[b], d[c], d[e], d[f], d[g], d[h]>>

\* vector<int> val = evaluate5CardHand(five)
Evaluate ==
    /\ pc = "ready" /\ five # <<>>
    /\ handValue' = evaluate5CardHand(five)
    /\ pc' = "done"
    /\ UNCHANGED <<five, bestVars, memberVars, tallyVars, trialVars, equity>>

\* vector<int> bestVal = bestHandValue(seven)
Best ==
    /\ pc = "ready" /\ seven # <<>>
    /\ evaluated' = FivesOf(seven)
    /\ vals' = ValsOf(seven)
    /\ bestVal' = BestOfVals(vals')
    /\ pc' = "done"
    /\ UNCHANGED <<seven, evalVars, memberVars, tallyVars, trialVars, equity>>

\* two reorderings that generate every permutation: exchange the first two
\* elements, move the first element to the back
Reorderings(s) ==
    {[p \in 1..Len(s) |-> IF p = 1 THEN s[2] ELSE IF p = 2 THEN s[1] ELSE s[p]],
     Tail(s) \o <<Head(s)>>}

\* the same cards handed to evaluate5CardHand in another order
ReorderFive ==
    /\ pc = "done" /\ five # <<>>
    /\ five' \in Reorderings(five)
    /\ handValue' = evaluate5CardHand(five')
    /\ UNCHANGED <<pc, bestVars, memberVars, tallyVars, trialVars, equity>>

\* the same cards handed to bestHandValue in another order
ReorderSeven ==
    /\ pc = "done" /\ seven # <<>>
    /\ seven' \in Reorderings(seven)
    /\ evaluated' = FivesOf(seven')
    /\ vals' = ValsOf(seven')
    /\ bestVal' = BestOfVals(vals')
    /\ UNCHANGED <<pc, evalVars, memberVars, tallyVars, trialVars, equity>>

InitEval == pc = "ready" /\ FiveFrom(EvalDeck) /\ handValue = <<>> /\ BestIdle /\ SimIdle

NextEval == Evaluate

SpecEval == InitEval /\ [][NextEval]_vars

InitBest ==
    /\ pc = "ready" /\ SevenFrom(BestDeck)
    /\ bestVal = <<>> /\ evaluated = <<>> /\ vals = <<>> /\ EvalIdle /\ SimIdle

NextBest == Best

SpecBest == InitBest /\ [][NextBest]_vars

InitPerm ==
    /\ pc = "ready" /\ SimIdle
    /\ \/ FiveFrom(PermDeck) /\ handValue = <<>> /\ BestIdle
       \/ SevenFrom(PermDeck) /\ bestVal = <<>> /\ evaluated = <<>> /\ vals = <<>> /\ EvalIdle

NextPerm == Evaluate \/ Best \/ ReorderFive \/ ReorderSeven

SpecPerm == InitPerm /\ [][NextPerm]_vars

\* ---------------------------------------------------------------------
\* EquitySimulator (equity_simulator.cpp:249-300)
\* ---------------------------------------------------------------------
\* shuffle(deck.begin(), deck.end(), gen) leaves some permutation of the deck;
\* the ones drawn here are the deck, or the deck turned over, cut at k
Cut(d, k) == SubSeq(d, k + 1, Len(d)) \o SubSeq(d, 1, k)

TurnedOver(d) == [n \in 1..Len(d) |-> d[Len(d) + 1 - n]]

Shuffles(d) == {Cut(d, k) : k \in 0..MaxCut} \cup {Cut(TurnedOver(d), k) : k \in 0..MaxCut}

\* the comparison turned around
Outcome_Swapped(hv, ov) ==
    IF VecGreater(ov, hv) THEN "win" ELSE IF hv = ov THEN "tie" ELSE "loss"

\* if (heroVal > oppVal) wins++; else if (heroVal == oppVal) ties++; else losses++
Outcome(hv, ov) ==
    IF VecGreater(hv, ov) THEN "win" ELSE IF hv = ov THEN "tie" ELSE "loss"

\* double equity = (wins + 0.5 * ties) / double(total), kept as an exact
\* fraction; 0.0 / 0.0 is NaN
Equity(w, t, total) ==
    IF total = 0 THEN [kind |-> "NaN", num |-> 0, den |-> 0]
    ELSE [kind |-> "value", num |-> 2 * w + t, den |-> 2 * total]

Init ==
    /\ pc = "start"
    /\ heroHandStr \in HandStrings
    /\ simulations \in (-1)..MaxSims
    /\ heroHand = <<>>
    /\ wins = 0 /\ ties = 0 /\ losses = 0 /\ i = 0
    /\ deck = <<>> /\ oppHand = <<>> /\ board = <<>>
    /\ heroSeven = <<>> /\ oppSeven = <<>> /\ heroVal = <<>> /\ oppVal = <<>>
    /\ equity = NoEquity
    /\ EvalIdle /\ BestIdle

\* EquitySimulator(heroHandStr, simulations)
Construct ==
    /\ pc = "start"
    /\ heroHand' = parseHand(heroHandStr)
    /\ pc' = "constructed"
    /\ UNCHANGED <<heroHandStr, simulations, evalVars, bestVars, tallyVars, trialVars, equity>>

\* simulate(), up to the loop: the tally is declared and zeroed
SimulateBegin ==
    /\ pc \in {"constructed", "returned"}
    /\ wins' = 0 /\ ties' = 0 /\ losses' = 0 /\ i' = 0
    /\ deck' = <<>> /\ oppHand' = <<>> /\ board' = <<>>
    /\ heroSeven' = <<>> /\ oppSeven' = <<>> /\ heroVal' = <<>> /\ oppVal' = <<>>
    /\ equity' = NoEquity
    /\ pc' = "loop"
    /\ UNCHANGED <<memberVars, evalVars, bestVars>>

\* the deal of one iteration: deck, shuffle, opponent hand, board, both sevens
Deal ==
    /\ deck' \in Shuffles(buildDeck(heroHand))
    /\ oppHand' = <<deck'[1], deck'[2]>>
    /\ board' = SubSeq(SubSeq(deck', 3, Len(deck')), 1, 5)
    /\ heroSeven' = heroHand \o board'
    /\ oppSeven' = oppHand' \o board'

\* the comparison and the tally of one iteration, given what bestHandValue read
Count7(heroRead) ==
    /\ heroVal' = bestHandValue(heroRead)
    /\ oppVal' = bestHandValue(oppSeven')
    /\ LET o == Outcome(heroVal', oppVal')
       IN /\ wins' = IF o = "win" THEN wins + 1 ELSE wins
          /\ ties' = IF o = "tie" THEN ties + 1 ELSE ties
          /\ losses' = IF o = "loss" THEN losses + 1 ELSE losses
    /\ i' = i + 1
    /\ pc' = "loop"

\* RANK_VALUES.at throws std::out_of_range: simulate is left by the exception
Throw7 ==
    /\ heroVal' = <<>> /\ oppVal' = <<>>
    /\ pc' = "threw"
    /\ UNCHANGED tallyVars

\* one iteration with a seven-card heroSeven
TrialInRange ==
    /\ Deal
    /\ Len(heroSeven') = 7
    /\ IF EvalThrows(heroSeven') THEN Throw7 ELSE Count7(heroSeven')

\* one iteration with a heroSeven shorter than 7: sevenCards[5] and sevenCards[6]
\* are read out of range, which may end the process or yield any two cards
TrialOutOfRange ==
    /\ Deal
    /\ Len(heroSeven') < 7
    /\ \/ /\ heroVal' = <<>> /\ oppVal' = <<>>
          /\ pc' = "crashed"
          /\ UNCHANGED tallyVars
       \/ \E g \in GarbageCards \X GarbageCards :
             LET heroRead == heroSeven' \o SubSeq(<<g[1], g[2]>>, 1, 7 - Len(heroSeven'))
             IN IF EvalThrows(heroRead) THEN Throw7 ELSE Count7(heroRead)

Trial ==
    /\ pc = "loop" /\ i < simulations
    /\ (TrialInRange \/ TrialOutOfRange)
    /\ UNCHANGED <<memberVars, evalVars, bestVars, equity>>

\* after the loop: total, equity, return
Finish ==
    /\ pc = "loop" /\ ~(i < simulations)
    /\ equity' = Equity(wins, ties, wins + ties + losses)
    /\ pc' = "returned"
    /\ UNCHANGED <<memberVars, evalVars, bestVars, tallyVars, trialVars>>

Next == Construct \/ SimulateBegin \/ Trial \/ Finish

Spec == Init /\ [][Next]_vars

\* ---------------------------------------------------------------------
\* The rule table of poker hands, stated on sets of cards
\* ---------------------------------------------------------------------
Universe == [rank : DOMAIN RANK_VALUES, suit : Range(SUITS)]

RankOf(c) == RANK_VALUES[c.rank]

RankSet(S) == {RankOf(c) : c \in S}

Mult(S, v) == Cardinality({c \in S : RankOf(c) = v})

OfMult(S, k) == {v \in RankSet(S) : Mult(S, v) = k}

SetMax(V) == CHOOSE x \in V : \A y \in V : y <= x

SetMin(V) == CHOOSE x \in V : \A y \in V : x <= y

RECURSIVE DescSeq(_)
DescSeq(V) == IF V = {} THEN <<>> ELSE <<SetMax(V)>> \o DescSeq(V \ {SetMax(V)})

SameSuit(S) == \A a, b \in S : a.suit = b.suit

IsWheelSet(S) == RankSet(S) = {14, 2, 3, 4, 5}

IsStraightSet(S) ==
    \/ Cardinality(RankSet(S)) = 5 /\ SetMax(RankSet(S)) - SetMin(RankSet(S)) = 4
    \/ IsWheelSet(S)

StraightTop(S) == IF IsWheelSet(S) THEN 5 ELSE SetMax(RankSet(S))

RuleValue(S) ==
    IF IsStraightSet(S) /\ SameSuit(S) THEN <<9, StraightTop(S)>>
    ELSE IF OfMult(S, 4) # {} THEN
        <<8, SetMax(OfMult(S, 4)), SetMax(RankSet(S) \ OfMult(S, 4))>>
    ELSE IF OfMult(S, 3) # {} /\ OfMult(S, 2) # {} THEN
        <<7, SetMax(OfMult(S, 3)), SetMax(OfMult(S, 2))>>
    ELSE IF SameSuit(S) THEN <<6>> \o DescSeq(RankSet(S))
    ELSE IF IsStraightSet(S) THEN <<5, StraightTop(S)>>
    ELSE IF OfMult(S, 3) # {} THEN
        <<4, SetMax(OfMult(S, 3))>> \o DescSeq(OfMult(S, 1))
    ELSE IF Cardinality(OfMult(S, 2)) = 2 THEN
        <<3, SetMax(OfMult(S, 2)), SetMin(OfMult(S, 2))>> \o DescSeq(OfMult(S, 1))
    ELSE IF Cardinality(OfMult(S, 2)) = 1 THEN
        <<2, SetMax(OfMult(S, 2))>> \o DescSeq(OfMult(S, 1))
    ELSE <<1>> \o DescSeq(RankSet(S))

\* a strictly below b in the lexicographic order of tuples
HandLess(a, b) ==
    \/ \E k \in 1..Len(a) :
          /\ k <= Len(b) /\ a[k] < b[k]
          /\ \A j \in 1..(k - 1) : a[j] = b[j]
    \/ Len(a) < Len(b) /\ \A j \in 1..Len(a) : a[j] = b[j]

ProperPrefix(a, b) == Len(a) < Len(b) /\ \A j \in 1..Len(a) : a[j] = b[j]

FiveSubsets(S) == {T \in SUBSET S : Cardinality(T) = 5}

Distinct(s) == Cardinality(Range(s)) = Len(s)

\* a hero hand of two valid distinct cards
ValidHero(h) == Len(h) = 2 /\ h[1] # h[2] /\ h[1] \in Universe /\ h[2] \in Universe

\* the tuple length the rule table gives each category
TupleLen(cat) ==
    CASE cat \in {9, 5} -> 2 [] cat \in {8, 7} -> 3 [] cat \in {4, 3} -> 4
      [] cat = 2 -> 5 [] cat \in {6, 1} -> 6 [] OTHER -> 0

\* ---------------------------------------------------------------------
\* Properties
\* ---------------------------------------------------------------------
\* C1: for 5 distinct valid cards evaluate5CardHand returns exactly the tuple of
\* the rule table: a category in 1..9, the first matching rule, and that
\* category's tiebreaks.
C1_RuleTable ==
    (pc = "done" /\ Len(five) = 5) =>
        /\ handValue[1] \in 1..9
        /\ handValue = RuleValue(Range(five))

C1_Witness == pc = "done" /\ Len(five) = 5 /\ handValue = <<3, 14, 5, 8>>

\* C2: five cards of ranks A,2,3,4,5 evaluate to [5,5] when the suits differ and
\* to [9,5] when they are all equal, so the wheel is strictly below every
\* straight of its category with high card 6 or more.
C2_Wheel ==
    (pc = "done" /\ Len(five) = 5 /\ {RankOf(five[n]) : n \in 1..5} = {14, 2, 3, 4, 5}) =>
        /\ handValue = IF SameSuit(Range(five)) THEN <<9, 5>> ELSE <<5, 5>>
        /\ \A high \in 6..14 :
              /\ isBetterHand(<<handValue[1], high>>, handValue)
              /\ ~isBetterHand(handValue, <<handValue[1], high>>)

C2_Witness ==
    /\ pc = "done" /\ Len(five) = 5
    /\ {RankOf(five[n]) : n \in 1..5} = {14, 2, 3, 4, 5}
    /\ handValue = <<9, 5>>

\* C3: on 7 distinct cards bestHandValue evaluates each of the 21 five-card
\* subsets exactly once, and returns a value that no subset's value exceeds and
\* that one subset attains; if a subset is a straight flush the category is 9.
C3_BestOfSeven ==
    (pc = "done" /\ Len(seven) = 7) =>
        LET subsets == FiveSubsets(Range(seven))
        IN /\ Len(evaluated) = 21
           /\ {Range(evaluated[n]) : n \in 1..Len(evaluated)} = subsets
           /\ \A n, m \in 1..Len(evaluated) :
                 n # m => Range(evaluated[n]) # Range(evaluated[m])
           /\ \A T \in subsets : ~HandLess(bestVal, RuleValue(T))
           /\ \E T \in subsets : bestVal = RuleValue(T)
           /\ (\E T \in subsets : IsStraightSet(T) /\ SameSuit(T)) => bestVal[1] = 9

C3_Witness ==
    /\ pc = "done" /\ Len(seven) = 7 /\ bestVal[1] = 9
    /\ Cardinality({T \in FiveSubsets(Range(seven)) : IsStraightSet(T) /\ SameSuit(T)}) = 1

\* C4: with a hero hand of two valid distinct cards, the deck of a trial is the
\* 50 other cards without a duplicate, and opponent hand, board and hero hand are
\* 9 distinct cards: each seven is duplicate-free and the two share the board only.
C4_Deal ==
    (ValidHero(heroHand) /\ deck # <<>>) =>
        /\ Len(deck) = 50 /\ Distinct(deck)
        /\ Range(deck) = Universe \ Range(heroHand)
        /\ Len(oppHand) = 2 /\ Len(board) = 5
        /\ Cardinality(Range(oppHand) \cup Range(board) \cup Range(heroHand)) = 9
        /\ Len(heroSeven) = 7 /\ Distinct(heroSeven)
        /\ Len(oppSeven) = 7 /\ Distinct(oppSeven)
        /\ Range(heroSeven) \cap Range(oppSeven) = Range(board)

C4_Witness == ValidHero(heroHand) /\ deck # <<>> /\ pc = "loop" /\ i = 2

\* C5: for every hero hand and every trial count N, simulate ends with
\* wins + ties + losses = N and returns (wins + 0.5 ties) / N, a value in [0,1].
\* Stated here for the well-formed hero hands and the counts N >= 0 alone.
C5_EquityInUnitInterval ==
    (pc = "returned" /\ ValidHero(heroHand) /\ simulations >= 0) =>
        /\ wins + ties + losses = simulations
        /\ equity.kind = "value"
        /\ equity.den = 2 * simulations
        /\ 0 <= equity.num /\ equity.num <= equity.den

\* C6: parsing yields two valid distinct cards or reports an error; a malformed
\* string never reaches the sampler as cards.
C6_ParsedOrRejected == pc \notin {"start", "rejected"} => ValidHero(heroHand)

\* C7: a duplicate card inside a seven handed to bestHandValue puts the program
\* in a failure state; the trial is not counted and no equity is returned.
C7_FailFast ==
    (heroSeven # <<>> /\ (~Distinct(heroSeven) \/ ~Distinct(oppSeven))) =>
        pc \in {"threw", "crashed"}

\* C8: evaluate5CardHand and bestHandValue return the same value for the same
\* cards in any order.
C8_OrderIndependent ==
    [][(pc = "done" /\ pc' = "done") => (handValue' = handValue /\ bestVal' = bestVal)]_vars

C8_Witness ==
    /\ pc = "done" /\ Len(seven) = 7 /\ bestVal # <<>>
    /\ seven[1] = PermDeck[7] /\ seven[7] = PermDeck[1]

\* C9: a run starts its tally at zero; every completed trial adds 1 to exactly
\* one counter (wins if the hero's value is greater, ties if equal, losses
\* otherwise) and leaves the hero hand alone; the counters sum to the number of
\* completed trials and never decrease within the run.
C9_Tally ==
    /\ [](pc = "loop" => wins + ties + losses = i)
    /\ [][/\ (pc # "loop" /\ pc' = "loop") => (wins' = 0 /\ ties' = 0 /\ losses' = 0)
          /\ pc = "loop" => (wins' >= wins /\ ties' >= ties /\ losses' >= losses)
          /\ (pc = "loop" /\ i' # i) =>
                /\ i' = i + 1
                /\ heroHand' = heroHand
                /\ <<wins', ties', losses'>> =
                      IF HandLess(oppVal', heroVal') THEN <<wins + 1, ties, losses>>
                      ELSE IF heroVal' = oppVal' THEN <<wins, ties + 1, losses>>
                      ELSE <<wins, ties, losses + 1>>]_vars

C9_Witness == pc = "loop" /\ i = 2 /\ wins = 1 /\ ties = 1

\* C10: values of the same category have the same length (the length the rule
\* table gives the category), so a comparison is decided by an element and never
\* by one tuple being a proper prefix of the other, and isBetterHand and the
\* sampler's operator> agree.
C10_SameLength ==
    (pc = "done" /\ Len(seven) = 7) =>
        \A a, b \in Range(vals) :
            /\ Len(a) = TupleLen(a[1])
            /\ a[1] = b[1] => Len(a) = Len(b)
            /\ ~ProperPrefix(a, b)
            /\ a # b => \E k \in 1..Len(a) : k <= Len(b) /\ a[k] # b[k]
            /\ isBetterHand(a, b) <=> VecGreater(a, b)
            /\ isBetterHand(a, b) <=> HandLess(b, a)

C10_Witness ==
    /\ pc = "done" /\ Len(seven) = 7
    /\ \E a, b \in Range(vals) : a[1] = 8 /\ b[1] = 8 /\ isBetterHand(a, b)
====
